---- MODULE Spec2Model ----
(***************************************************************************)
(* Model of the task deployment pipeline of tds-llm-autodeploy-api.        *)
(*                                                                         *)
(* Two pipelines exist in the repository:                                  *)
(*   - main.py: handle_task_request schedules process_task as a FastAPI    *)
(*     background task (a thread-pool thread per accepted request); all    *)
(*     runs share the one working-copy directory LOCAL_REPO_PATH and the   *)
(*     one remote repository.  Specification: Spec.                        *)
(*   - app_generator.py (HEAD side of the file): process_task(task_params, *)
(*     pat) with its own cleanup and notify_evaluator.  Specification:     *)
(*     SpecGen.                                                            *)
(*                                                                         *)
(* git, the file system, the generator and the evaluator endpoint are      *)
(* external: every call is one atomic step whose outcome the environment   *)
(* chooses among the outcomes the call can have in the state it runs in.   *)
(***************************************************************************)
EXTENDS Integers, Sequences, FiniteSets, TLC

VARIABLES
    \* ---- environment shared by all runs of main.py
    wc,             \* the directory LOCAL_REPO_PATH
    remote,         \* remote repository: branch name -> commit history
    nextId,         \* next fresh commit identifier
    defaultBranch,  \* default branch of the remote
    \* ---- per run of main.py process_task
    pc,             \* position of the run
    req,            \* the IncomingTask of the run
    rmRet,          \* where safe_rmtree returns to
    rmTries,        \* failed attempts of the current safe_rmtree loop
    commit_sha,     \* local variable commit_sha
    outcome,        \* how the pipeline of the run went
    log,            \* external calls the run has made, in order
    last,           \* the latest external call of the run and how it ended
    posts,          \* payloads the run has posted to evaluation_url
    evalScript,     \* how many first attempts the run's evaluation_url fails
    responses,      \* HTTP status handle_task_request has returned per request
    \* ---- per run of app_generator.py process_task
    failure_response,   \* commit_sha field of the local failure_response
    attIdx,             \* attachments the write loop has gone through
    envFault,           \* an external call of the run failed that could have succeeded
    \* ---- history of a run of either process_task
    pushedTo            \* the remote branch the run has run git push for ("" if none)

mainVars == <<wc, remote, nextId, defaultBranch, pc, req, rmRet, rmTries,
              commit_sha, outcome, log, last, posts, evalScript, responses>>

genVars == <<failure_response, attIdx, envFault>>

vars == <<mainVars, genVars, pushedTo>>

\* ------------------------------------------------------------------ bounds

\* round numbers of the requests are drawn from 1..MaxRound
MaxRound == 3

\* an evaluation endpoint fails its first 0..MaxEvalFailures attempts
MaxEvalFailures == 2

\* a request to app_generator.py carries up to MaxAttachments attachments
MaxAttachments == 2

\* other writers of the remote push while its branch main has fewer commits than this
MaxRemoteLen == 2

\* ------------------------------------------------------- program constants

\* for _ in range(5) in safe_rmtree
RmAttempts == 5

\* cleanup of app_generator.py: one shutil.rmtree and one second pass
CleanupAttempts == 2

\* ----------------------------------------------------------------- values

\* the overlapping requests the server handles (one background run each)
Runs == {"a", "b"}

\* the run of app_generator.py process_task
GenRuns == {"g"}

AllRuns == Runs \cup GenRuns

\* order of arrival of the requests
Before(q, r) == q = "a" /\ r = "b"

Rounds == 1..MaxRound

\* target_branch of app_generator.py
TargetBranch(round_num) ==
    IF round_num = 1 THEN "main" ELSE "round-" \o ToString(round_num)

\* branch names of the remote
Branches == {"main", "master"} \cup {TargetBranch(n) : n \in Rounds}

None == "None"

NoReq == [round |-> 0, attachments |-> <<>>]

AbsentDir == [exists |-> FALSE, repo |-> FALSE, identity |-> FALSE,
              branch |-> "", branches |-> {}, hist |-> <<>>,
              dirty |-> FALSE, staged |-> FALSE]

Sha(n) == "sha" \o ToString(n)

\* the commit the remote holds before any run
InitialHistory == <<Sha(0)>>

Last(s) == s[Len(s)]

IsPrefix(s, t) == Len(s) <= Len(t) /\ SubSeq(t, 1, Len(s)) = s

\* ------------------------------------------------------------ git (main.py)

\* exit status and standard output of a git command, chosen by the environment
GitOutcomes == {"fail", "empty", "out"}

\* run_git_command: stdout.strip() on exit status 0, None on CalledProcessError or
\* FileNotFoundError (git missing, or cwd missing)
run_git_command(o, text) ==
    CASE o = "fail"  -> None
      [] o = "empty" -> ""
      [] OTHER       -> text

\* Python truthiness of an Optional[str]
Truthy(x) == x \notin {None, ""}

\* a command run with cwd=LOCAL_REPO_PATH cannot start when the directory is missing
CwdOk(o) == wc.exists \/ o = "fail"

\* git clone refuses an existing, non-empty destination
CloneFeasible(o) == wc.exists => o = "fail"

\* a fresh clone: the default branch checked out, no committer identity
ClonedDir == [exists |-> TRUE, repo |-> TRUE, identity |-> FALSE,
              branch |-> defaultBranch, branches |-> {defaultBranch},
              hist |-> remote[defaultBranch], dirty |-> FALSE, staged |-> FALSE]

\* git commit needs something staged (in a clone)
CommitFeasible(o) == CwdOk(o) /\ (wc.repo /\ ~wc.staged => o = "fail")

\* git push origin main (no force): needs a local branch main and a fast-forward
PushFeasible(o) ==
    /\ CwdOk(o)
    /\ (wc.repo /\ ("main" \notin wc.branches \/ ~IsPrefix(remote["main"], wc.hist))
            => o = "fail")

\* ------------------------------------------------- main.py: process state

Init ==
    /\ wc \in {AbsentDir}
    /\ defaultBranch \in {"main", "master"}
    /\ remote = [b \in Branches |->
                    IF b = defaultBranch THEN InitialHistory ELSE <<>>]
    /\ nextId = 1
    /\ pc = [r \in AllRuns |-> "idle"]
    /\ req = [r \in AllRuns |-> NoReq]
    /\ rmRet = [r \in AllRuns |-> "idle"]
    /\ rmTries = [r \in AllRuns |-> 0]
    /\ commit_sha = [r \in AllRuns |-> ""]
    /\ outcome = [r \in AllRuns |-> "none"]
    /\ log = [r \in AllRuns |-> <<>>]
    /\ last = [r \in AllRuns |-> <<"", "">>]
    /\ posts = [r \in AllRuns |-> <<>>]
    /\ evalScript = [r \in AllRuns |-> 0]
    /\ responses = [r \in AllRuns |-> 0]
    /\ failure_response = [r \in GenRuns |-> ""]
    /\ attIdx = [r \in GenRuns |-> 0]
    /\ envFault = [r \in GenRuns |-> FALSE]
    /\ pushedTo = [r \in AllRuns |-> ""]

Goto(r, p) == pc' = [pc EXCEPT ![r] = p]

Logged(r, op, res) ==
    /\ log' = [log EXCEPT ![r] = Append(@, op)]
    /\ last' = [last EXCEPT ![r] = <<op, res>>]

Res(o) == IF o = "fail" THEN "fail" ELSE "ok"

\* a call safe_rmtree(LOCAL_REPO_PATH) that returns to position ret
CallSafeRmtree(r, ret) ==
    /\ Goto(r, "rm_check")
    /\ rmRet' = [rmRet EXCEPT ![r] = ret]

\* GenerationFailed with the cleanup of the except clause left out
GenerationFailed_NoCleanup(r) ==
    /\ outcome' = [outcome EXCEPT ![r] = "gen_failed"]
    /\ Goto(r, "done")
    /\ UNCHANGED rmRet

\* except Exception of the generation phase: cleanup and return, no ping
GenerationFailed(r) ==
    /\ outcome' = [outcome EXCEPT ![r] = "gen_failed"]
    /\ CallSafeRmtree(r, "done")

\* DeploymentFailed with the cleanup of the except clause left out
DeploymentFailed_NoCleanup(r) ==
    /\ outcome' = [outcome EXCEPT ![r] = "deploy_failed"]
    /\ Goto(r, "done")
    /\ UNCHANGED rmRet

\* except Exception of the deployment phase: cleanup and return, no ping
DeploymentFailed(r) ==
    /\ outcome' = [outcome EXCEPT ![r] = "deploy_failed"]
    /\ CallSafeRmtree(r, "done")

\* student_secret check of handle_task_request (empty or shorter than 10 characters
\* fails it): a failed check logs a warning and rejects nothing
SecretRejects(secretOk) == FALSE

\* HandleTaskRequest that runs process_task itself and answers only after it
HandleTaskRequest_Awaits(r) ==
    /\ pc[r] = "idle"
    /\ \A q \in Runs : Before(q, r) => pc[q] # "idle"
    /\ \E rnd \in Rounds, secretOk \in BOOLEAN :
          /\ req' = [req EXCEPT ![r] = [round |-> rnd, attachments |-> <<>>]]
          /\ last' = [last EXCEPT ![r] =
                         <<"request", IF secretOk THEN "secret_ok" ELSE "secret_bad">>]
    /\ Goto(r, "start")
    /\ UNCHANGED <<wc, remote, nextId, defaultBranch, rmRet, rmTries,
                   commit_sha, outcome, log, posts, evalScript, responses>>
    /\ UNCHANGED <<genVars, pushedTo>>

\* handle_task_request: validate, schedule process_task, return 202
\* (the requests are named in the order they arrive)
HandleTaskRequest(r) ==
    /\ pc[r] = "idle"
    /\ \A q \in Runs : Before(q, r) => pc[q] # "idle"
    /\ \E rnd \in Rounds, secretOk \in BOOLEAN :
          /\ req' = [req EXCEPT ![r] = [round |-> rnd, attachments |-> <<>>]]
          /\ last' = [last EXCEPT ![r] =
                         <<"request", IF secretOk THEN "secret_ok" ELSE "secret_bad">>]
          /\ IF ~secretOk /\ SecretRejects(secretOk)
                THEN /\ responses' = [responses EXCEPT ![r] = 401]
                     /\ Goto(r, "rejected")
                ELSE /\ responses' = [responses EXCEPT ![r] = 202]
                     /\ Goto(r, "start")
    /\ UNCHANGED <<wc, remote, nextId, defaultBranch, rmRet, rmTries,
                   commit_sha, outcome, log, posts, evalScript>>
    /\ UNCHANGED <<genVars, pushedTo>>

\* generation phase, round 2: git clone BASE_URL LOCAL_REPO_PATH
RevisionClone(r) ==
    /\ pc[r] = "start"
    /\ req[r].round = 2
    /\ \E o \in GitOutcomes :
          /\ CloneFeasible(o)
          /\ wc' = IF o = "fail" THEN wc ELSE ClonedDir
          /\ Logged(r, "clone", Res(o))
          /\ IF Truthy(run_git_command(o, "out"))
                THEN Goto(r, "llm") /\ UNCHANGED <<outcome, rmRet>>
                ELSE GenerationFailed(r)
    /\ UNCHANGED <<remote, nextId, defaultBranch, req, rmTries,
                   commit_sha, posts, evalScript, responses>>
    /\ UNCHANGED <<genVars, pushedTo>>

\* what call_llm_api can do
LlmOutcomes == {"raise", "reported_failure", "no_files_key", "empty", "files"}

\* GenerationOk without the test for an empty file set (lines 192-193 left out)
GenerationOk_EmptyAccepted(res) == res \in {"files", "empty"}

\* the checks of lines 187-193 pass
GenerationOk(res) == res = "files"

\* start of the deployment phase: round 1 cleans and clones, other rounds write at once
DeployEntry(r) ==
    IF req[r].round = 1
        THEN CallSafeRmtree(r, "clone")
        ELSE Goto(r, "write") /\ UNCHANGED rmRet

CallLlm(r) ==
    /\ pc[r] = "llm" \/ (pc[r] = "start" /\ req[r].round # 2)
    /\ \E res \in LlmOutcomes :
          /\ Logged(r, "llm", IF res = "files" THEN "ok" ELSE "fail")
          /\ IF GenerationOk(res)
                THEN /\ commit_sha' = [commit_sha EXCEPT ![r] = "unknown"]
                     /\ DeployEntry(r)
                     /\ UNCHANGED outcome
                ELSE /\ GenerationFailed(r)
                     /\ UNCHANGED commit_sha
    /\ UNCHANGED <<wc, remote, nextId, defaultBranch, req, rmTries,
                   posts, evalScript, responses>>
    /\ UNCHANGED <<genVars, pushedTo>>

\* safe_rmtree: if os.path.exists(path)
RmCheck(r) ==
    /\ pc[r] = "rm_check"
    /\ IF wc.exists
          THEN Goto(r, "rm_try") /\ UNCHANGED <<log, last>>
          ELSE Goto(r, rmRet[r]) /\ Logged(r, "rmtree", "absent")
    /\ rmTries' = [rmTries EXCEPT ![r] = 0]
    /\ UNCHANGED <<wc, remote, nextId, defaultBranch, req, rmRet,
                   commit_sha, outcome, posts, evalScript, responses>>
    /\ UNCHANGED <<genVars, pushedTo>>

\* RmTry whose loop test is off by one: a sixth attempt follows five failures
RmTry_SixAttempts(r) ==
    /\ pc[r] = "rm_try"
    /\ \E ok \in BOOLEAN :
          /\ ok => wc.exists
          /\ IF ok
                THEN /\ wc' = AbsentDir
                     /\ Goto(r, rmRet[r])
                     /\ rmTries' = [rmTries EXCEPT ![r] = 0]
                     /\ Logged(r, "rmtree", "removed")
                ELSE /\ UNCHANGED wc
                     /\ IF rmTries[r] + 1 > RmAttempts
                           THEN /\ Goto(r, rmRet[r])
                                /\ rmTries' = [rmTries EXCEPT ![r] = 0]
                                /\ Logged(r, "rmtree", "exhausted")
                           ELSE /\ rmTries' = [rmTries EXCEPT ![r] = @ + 1]
                                /\ UNCHANGED <<pc, log, last>>
    /\ UNCHANGED <<remote, nextId, defaultBranch, req, rmRet,
                   commit_sha, outcome, posts, evalScript, responses>>
    /\ UNCHANGED <<genVars, pushedTo>>

\* RmTry that retries without end (while True in place of range(5))
RmTry_Forever(r) ==
    /\ pc[r] = "rm_try"
    /\ \E ok \in BOOLEAN :
          /\ ok => wc.exists
          /\ IF ok
                THEN /\ wc' = AbsentDir
                     /\ Goto(r, rmRet[r])
                     /\ rmTries' = [rmTries EXCEPT ![r] = 0]
                     /\ Logged(r, "rmtree", "removed")
                ELSE /\ UNCHANGED wc
                     /\ rmTries' = [rmTries EXCEPT ![r] = (@ + 1) % RmAttempts]
                     /\ UNCHANGED <<pc, log, last>>
    /\ UNCHANGED <<remote, nextId, defaultBranch, req, rmRet,
                   commit_sha, outcome, posts, evalScript, responses>>
    /\ UNCHANGED <<genVars, pushedTo>>

\* safe_rmtree: one pass of the retry loop (shutil.rmtree raises on a missing path)
RmTry(r) ==
    /\ pc[r] = "rm_try"
    /\ \E ok \in BOOLEAN :
          /\ ok => wc.exists
          /\ IF ok
                THEN /\ wc' = AbsentDir
                     /\ Goto(r, rmRet[r])
                     /\ rmTries' = [rmTries EXCEPT ![r] = 0]
                     /\ Logged(r, "rmtree", "removed")
                ELSE /\ UNCHANGED wc
                     /\ IF rmTries[r] + 1 >= RmAttempts
                           THEN /\ Goto(r, rmRet[r])
                                /\ rmTries' = [rmTries EXCEPT ![r] = 0]
                                /\ Logged(r, "rmtree", "exhausted")
                           ELSE /\ rmTries' = [rmTries EXCEPT ![r] = @ + 1]
                                /\ UNCHANGED <<pc, log, last>>
    /\ UNCHANGED <<remote, nextId, defaultBranch, req, rmRet,
                   commit_sha, outcome, posts, evalScript, responses>>
    /\ UNCHANGED <<genVars, pushedTo>>

\* deployment phase, round 1: git clone BASE_URL LOCAL_REPO_PATH
Clone(r) ==
    /\ pc[r] = "clone"
    /\ \E o \in GitOutcomes :
          /\ CloneFeasible(o)
          /\ wc' = IF o = "fail" THEN wc ELSE ClonedDir
          /\ Logged(r, "clone", Res(o))
          /\ IF Truthy(run_git_command(o, "out"))
                THEN Goto(r, "config") /\ UNCHANGED <<outcome, rmRet>>
                ELSE DeploymentFailed(r)
    /\ UNCHANGED <<remote, nextId, defaultBranch, req, rmTries,
                   commit_sha, posts, evalScript, responses>>
    /\ UNCHANGED <<genVars, pushedTo>>

\* git config user.email / user.name: the results are not looked at
ConfigIdentity(r) ==
    /\ pc[r] = "config"
    /\ \E o \in {"fail", "out"} :
          /\ CwdOk(o)
          /\ wc' = IF o # "fail" /\ wc.repo THEN [wc EXCEPT !.identity = TRUE] ELSE wc
          /\ Logged(r, "config", Res(o))
    /\ Goto(r, "write")
    /\ UNCHANGED <<remote, nextId, defaultBranch, req, rmRet, rmTries,
                   commit_sha, outcome, posts, evalScript, responses>>
    /\ UNCHANGED <<genVars, pushedTo>>

\* os.makedirs(dirname, exist_ok=True) and open(full_path, 'w') of the write loop
Written(changed) ==
    [wc EXCEPT !.exists = TRUE, !.dirty = @ \/ changed]

WriteFiles(r) ==
    /\ pc[r] = "write"
    /\ \E res \in {"ok", "raise"}, changed \in BOOLEAN :
          /\ Logged(r, "write", res)
          /\ IF res = "ok"
                THEN /\ wc' = Written(changed)
                     /\ Goto(r, "add")
                     /\ UNCHANGED <<outcome, rmRet>>
                ELSE /\ wc' = IF changed THEN Written(changed) ELSE wc
                     /\ DeploymentFailed(r)
    /\ UNCHANGED <<remote, nextId, defaultBranch, req, rmTries,
                   commit_sha, posts, evalScript, responses>>
    /\ UNCHANGED <<genVars, pushedTo>>

\* git add . : the result is not looked at
GitAdd(r) ==
    /\ pc[r] = "add"
    /\ \E o \in {"fail", "empty"} :
          /\ CwdOk(o)
          /\ wc' = IF o # "fail" /\ wc.repo
                      THEN [wc EXCEPT !.staged = @ \/ wc.dirty, !.dirty = FALSE]
                      ELSE wc
          /\ Logged(r, "add", Res(o))
    /\ Goto(r, "commit")
    /\ UNCHANGED <<remote, nextId, defaultBranch, req, rmRet, rmTries,
                   commit_sha, outcome, posts, evalScript, responses>>
    /\ UNCHANGED <<genVars, pushedTo>>

\* CommitFatal without the test of the round: a failed commit aborts every run
CommitFatal_AnyRound(result, round) == ~Truthy(result)

\* a failed commit aborts the run in round 1 only
CommitFatal(result, round) == ~Truthy(result) /\ round = 1

GitCommit(r) ==
    /\ pc[r] = "commit"
    /\ \E o \in GitOutcomes :
          /\ CommitFeasible(o)
          /\ IF o # "fail" /\ wc.repo
                THEN /\ wc' = [wc EXCEPT !.hist = Append(@, Sha(nextId)),
                                         !.staged = FALSE]
                     /\ nextId' = nextId + 1
                ELSE UNCHANGED <<wc, nextId>>
          /\ Logged(r, "commit", Res(o))
          /\ IF CommitFatal(run_git_command(o, "out"), req[r].round)
                THEN DeploymentFailed(r)
                ELSE Goto(r, "revparse") /\ UNCHANGED <<outcome, rmRet>>
    /\ UNCHANGED <<remote, defaultBranch, req, rmTries,
                   commit_sha, posts, evalScript, responses>>
    /\ UNCHANGED <<genVars, pushedTo>>

\* what git rev-parse HEAD prints: the head of the clone, or of an enclosing repository
HeadSha == IF wc.repo THEN Last(wc.hist) ELSE "outer"

\* run_git_command(["git", "rev-parse", "HEAD"]) or "unknown"
ResolveSha(result) == IF Truthy(result) THEN result ELSE "unknown"

\* git rev-parse HEAD, then the check of os.getenv('GITHUB_PAT') (read anew here)
RevParse(r) ==
    /\ pc[r] = "revparse"
    /\ \E o \in {"fail", "out"}, pat \in BOOLEAN :
          /\ CwdOk(o)
          /\ commit_sha' = [commit_sha EXCEPT ![r] =
                               ResolveSha(run_git_command(o, HeadSha))]
          /\ Logged(r, "revparse", Res(o))
          /\ IF pat
                THEN Goto(r, "seturl") /\ UNCHANGED <<outcome, rmRet>>
                ELSE DeploymentFailed(r)
    /\ UNCHANGED <<wc, remote, nextId, defaultBranch, req, rmTries,
                   posts, evalScript, responses>>
    /\ UNCHANGED <<genVars, pushedTo>>

\* git remote set-url origin <authenticated url>: the result is not looked at
SetUrl(r) ==
    /\ pc[r] = "seturl"
    /\ \E o \in {"fail", "empty"} :
          /\ CwdOk(o)
          /\ Logged(r, "seturl", Res(o))
    /\ Goto(r, "push")
    /\ UNCHANGED <<wc, remote, nextId, defaultBranch, req, rmRet, rmTries,
                   commit_sha, outcome, posts, evalScript, responses>>
    /\ UNCHANGED <<genVars, pushedTo>>

\* the branch process_task of main.py pushes to
PushBranch(round) == "main"

\* git push origin main, then the final cleanup
GitPush(r) ==
    /\ pc[r] = "push"
    /\ \E o \in GitOutcomes :
          /\ PushFeasible(o)
          /\ remote' = IF o # "fail" /\ wc.repo
                          THEN [remote EXCEPT ![PushBranch(req[r].round)] = wc.hist]
                          ELSE remote
          /\ Logged(r, "push", Res(o))
          /\ pushedTo' = [pushedTo EXCEPT ![r] = PushBranch(req[r].round)]
          /\ IF Truthy(run_git_command(o, "out"))
                THEN /\ outcome' = [outcome EXCEPT ![r] = "deployed"]
                     /\ CallSafeRmtree(r, "ping")
                ELSE DeploymentFailed(r)
    /\ UNCHANGED <<wc, nextId, defaultBranch, req, rmTries,
                   commit_sha, posts, evalScript, responses>>
    /\ UNCHANGED genVars

\* what one attempt against the endpoint ends in
PostErrors == {"network_error", "http_error"}

\* except requests.exceptions.RequestException
PingCaught(e) == e \in {"network_error", "http_error"}

EvaluationPayload(r) ==
    [task |-> r, round |-> req[r].round, commit_sha |-> commit_sha[r]]

\* one requests.post to evaluation_url; the endpoint fails its first k attempts
Ping(r) ==
    /\ pc[r] = "ping"
    /\ \E k \in 0..MaxEvalFailures, e \in PostErrors :
          /\ evalScript' = [evalScript EXCEPT ![r] = k]
          /\ posts' = [posts EXCEPT ![r] = Append(@, EvaluationPayload(r))]
          /\ IF Len(posts[r]) + 1 > k
                THEN Logged(r, "post", "ok") /\ Goto(r, "done")
                ELSE /\ Logged(r, "post", e)
                     /\ Goto(r, IF PingCaught(e) THEN "done" ELSE "raised")
    /\ UNCHANGED <<wc, remote, nextId, defaultBranch, req, rmRet, rmTries,
                   commit_sha, outcome, responses>>
    /\ UNCHANGED <<genVars, pushedTo>>



ProcessTask(r) ==
    \/ RevisionClone(r)
    \/ CallLlm(r)
    \/ RmCheck(r)
    \/ RmTry(r)
    \/ Clone(r)
    \/ ConfigIdentity(r)
    \/ WriteFiles(r)
    \/ GitAdd(r)
    \/ GitCommit(r)
    \/ RevParse(r)
    \/ SetUrl(r)
    \/ GitPush(r)
    \/ Ping(r)

Next == \E r \in Runs : HandleTaskRequest(r) \/ ProcessTask(r)

Spec == Init /\ [][Next]_vars

\* ------------------------------------------- app_generator.py: process_task

\* a leftover working copy of an earlier run whose cleanup did not succeed
StaleDir == [exists |-> TRUE, repo |-> TRUE, identity |-> TRUE,
             branch |-> defaultBranch, branches |-> {defaultBranch},
             hist |-> InitialHistory, dirty |-> FALSE, staged |-> FALSE]

InitGen ==
    /\ defaultBranch \in {"main", "master"}
    /\ wc \in {AbsentDir, StaleDir}
    /\ remote = [b \in Branches |->
                    IF b = defaultBranch THEN InitialHistory ELSE <<>>]
    /\ nextId = 1
    /\ pc = [r \in AllRuns |-> "idle"]
    /\ req = [r \in AllRuns |-> NoReq]
    /\ rmRet = [r \in AllRuns |-> "idle"]
    /\ rmTries = [r \in AllRuns |-> 0]
    /\ commit_sha = [r \in AllRuns |-> ""]
    /\ outcome = [r \in AllRuns |-> "none"]
    /\ log = [r \in AllRuns |-> <<>>]
    /\ last = [r \in AllRuns |-> <<"", "">>]
    /\ posts = [r \in AllRuns |-> <<>>]
    /\ evalScript = [r \in AllRuns |-> 0]
    /\ responses = [r \in AllRuns |-> 0]
    /\ failure_response = [r \in GenRuns |-> ""]
    /\ attIdx = [r \in GenRuns |-> 0]
    /\ envFault = [r \in GenRuns |-> FALSE]
    /\ pushedTo = [r \in AllRuns |-> ""]

\* exit status of a git command under check=True (a non-zero status, a timeout or a
\* missing cwd raises)
GenGitOutcomes == {"fail", "ok"}

\* what an attachment of the request is: a plain URL, a data URI that decodes, a data
\* URI that does not, a data URI whose entry has no "name", an entry without "url"
AttachmentKinds == {"url", "data_ok", "data_bad", "data_noname", "no_url"}

RECURSIVE SeqsUpTo(_, _)
SeqsUpTo(S, n) ==
    IF n = 0 THEN {<<>>}
    ELSE LET shorter == SeqsUpTo(S, n - 1)
         IN  shorter \cup {Append(q, x) : q \in shorter, x \in S}

\* records that an external call failed although it could have succeeded
Fault(g, failed) == envFault' = [envFault EXCEPT ![g] = @ \/ failed]

\* a call cleanup(local_repo_path) that returns to position ret
CallCleanup(g, ret) ==
    /\ Goto(g, "g_clean_check")
    /\ rmRet' = [rmRet EXCEPT ![g] = ret]

\* FailureTag with the tag of the branch stage copied from the clone stage
FailureTag_Copied(stage) ==
    CASE stage = "clone"  -> "GIT_CLONE_FAILED"
      [] stage = "llm"    -> "LLM_GEN_FAILED"
      [] stage = "branch" -> "GIT_CLONE_FAILED"
      [] stage = "write"  -> "FILE_WRITE_FAILED"
      [] stage = "push"   -> "GIT_PUSH_FAILED"

\* the symbolic tag each except handler puts into failure_response["commit_sha"]
FailureTag(stage) ==
    CASE stage = "clone"  -> "GIT_CLONE_FAILED"
      [] stage = "llm"    -> "LLM_GEN_FAILED"
      [] stage = "branch" -> "GIT_BRANCH_FAILED"
      [] stage = "write"  -> "FILE_WRITE_FAILED"
      [] stage = "push"   -> "GIT_PUSH_FAILED"

\* the except handler of stage 1: tag, notify, return (no cleanup)
CloneStageFailed(g) ==
    /\ failure_response' = [failure_response EXCEPT ![g] = FailureTag("clone")]
    /\ outcome' = [outcome EXCEPT ![g] = "clone"]
    /\ Goto(g, "g_notify_fail")
    /\ UNCHANGED rmRet

\* the except handlers of stages 2-5: cleanup, tag, notify, return
StageFailed(g, stage) ==
    /\ failure_response' = [failure_response EXCEPT ![g] = FailureTag(stage)]
    /\ outcome' = [outcome EXCEPT ![g] = stage]
    /\ CallCleanup(g, "g_notify_fail")

\* process_task entry: failure_response built, then stage 1 begins with cleanup
GenStart(g) ==
    /\ pc[g] = "idle"
    /\ \E rnd \in Rounds, atts \in SeqsUpTo(AttachmentKinds, MaxAttachments) :
          req' = [req EXCEPT ![g] = [round |-> rnd, attachments |-> atts]]
    /\ failure_response' = [failure_response EXCEPT ![g] = "ERROR"]
    /\ CallCleanup(g, "g_clone")
    /\ UNCHANGED <<wc, remote, nextId, defaultBranch, rmTries, commit_sha, outcome,
                   log, last, posts, evalScript, responses, attIdx>>
    /\ UNCHANGED <<envFault, pushedTo>>

\* cleanup: if os.path.exists(path)
GenCleanCheck(g) ==
    /\ pc[g] = "g_clean_check"
    /\ IF wc.exists
          THEN Goto(g, "g_clean_try") /\ UNCHANGED <<log, last>>
          ELSE Goto(g, rmRet[g]) /\ Logged(g, "cleanup", "absent")
    /\ rmTries' = [rmTries EXCEPT ![g] = 0]
    /\ UNCHANGED <<wc, remote, nextId, defaultBranch, req, rmRet, commit_sha, outcome,
                   posts, evalScript, responses, failure_response, attIdx>>
    /\ UNCHANGED <<envFault, pushedTo>>

\* cleanup: shutil.rmtree, and once more when the first raised
GenCleanTry(g) ==
    /\ pc[g] = "g_clean_try"
    /\ \E ok \in BOOLEAN :
          /\ ok => wc.exists
          /\ Fault(g, ~ok /\ wc.exists)
          /\ IF ok
                THEN /\ wc' = AbsentDir
                     /\ Goto(g, rmRet[g])
                     /\ rmTries' = [rmTries EXCEPT ![g] = 0]
                     /\ Logged(g, "cleanup", "removed")
                ELSE /\ UNCHANGED wc
                     /\ IF rmTries[g] + 1 >= CleanupAttempts
                           THEN /\ Goto(g, rmRet[g])
                                /\ rmTries' = [rmTries EXCEPT ![g] = 0]
                                /\ Logged(g, "cleanup", "exhausted")
                           ELSE /\ rmTries' = [rmTries EXCEPT ![g] = @ + 1]
                                /\ UNCHANGED <<pc, log, last>>
    /\ UNCHANGED <<remote, nextId, defaultBranch, req, rmRet, commit_sha, outcome,
                   posts, evalScript, responses, failure_response, attIdx>>
    /\ UNCHANGED pushedTo

\* stage 1: git clone <authenticated url> local_repo_path
GenClone(g) ==
    /\ pc[g] = "g_clone"
    /\ \E o \in GenGitOutcomes :
          /\ CloneFeasible(o)
          /\ Logged(g, "clone", o)
          /\ Fault(g, o = "fail" /\ ~wc.exists)
          /\ IF o = "ok"
                THEN /\ wc' = ClonedDir
                     /\ Goto(g, "g_llm")
                     /\ UNCHANGED <<failure_response, outcome, rmRet>>
                ELSE /\ UNCHANGED wc
                     /\ CloneStageFailed(g)
    /\ UNCHANGED <<remote, nextId, defaultBranch, req, rmTries, commit_sha,
                   posts, evalScript, responses, attIdx>>
    /\ UNCHANGED pushedTo

\* stage 2: call_llm_api and llm_output["filename"]
GenCallLlm(g) ==
    /\ pc[g] = "g_llm"
    /\ \E res \in {"raise", "no_filename", "ok"} :
          /\ Logged(g, "llm", IF res = "ok" THEN "ok" ELSE "fail")
          /\ Fault(g, res # "ok")
          /\ IF res = "ok"
                THEN Goto(g, "g_branch") /\ UNCHANGED <<failure_response, outcome, rmRet>>
                ELSE StageFailed(g, "llm")
    /\ UNCHANGED <<wc, remote, nextId, defaultBranch, req, rmTries, commit_sha,
                   posts, evalScript, responses, attIdx>>
    /\ UNCHANGED pushedTo

\* git checkout -b refuses a branch name that exists
CheckoutFeasible(o, branch) == CwdOk(o) /\ (branch \in wc.branches => o = "fail")

\* stage 3: git checkout -b target_branch
GenCheckout(g) ==
    /\ pc[g] = "g_branch"
    /\ \E o \in GenGitOutcomes :
          /\ CheckoutFeasible(o, TargetBranch(req[g].round))
          /\ Logged(g, "checkout", o)
          /\ Fault(g, o = "fail" /\ CheckoutFeasible("ok", TargetBranch(req[g].round)))
          /\ IF o = "ok"
                THEN /\ wc' = IF wc.repo
                                 THEN [wc EXCEPT !.branch = TargetBranch(req[g].round),
                                                 !.branches = @ \cup
                                                     {TargetBranch(req[g].round)}]
                                 ELSE wc
                     /\ Goto(g, "g_config")
                     /\ UNCHANGED <<failure_response, outcome, rmRet>>
                ELSE /\ UNCHANGED wc
                     /\ StageFailed(g, "branch")
    /\ UNCHANGED <<remote, nextId, defaultBranch, req, rmTries, commit_sha,
                   posts, evalScript, responses, attIdx>>
    /\ UNCHANGED pushedTo

\* stage 3: git config user.name, git config user.email
GenConfigIdentity(g) ==
    /\ pc[g] = "g_config"
    /\ \E o \in GenGitOutcomes :
          /\ CwdOk(o)
          /\ Logged(g, "config", o)
          /\ Fault(g, o = "fail" /\ CwdOk("ok"))
          /\ IF o = "ok"
                THEN /\ wc' = IF wc.repo THEN [wc EXCEPT !.identity = TRUE] ELSE wc
                     /\ Goto(g, "g_write")
                     /\ UNCHANGED <<failure_response, outcome, rmRet>>
                ELSE /\ UNCHANGED wc
                     /\ StageFailed(g, "branch")
    /\ UNCHANGED <<remote, nextId, defaultBranch, req, rmTries, commit_sha,
                   posts, evalScript, responses, attIdx>>
    /\ UNCHANGED pushedTo

\* stage 4: the main file, README.md and LICENSE
GenWriteFiles(g) ==
    /\ pc[g] = "g_write"
    /\ \E res \in {"ok", "raise"}, changed \in BOOLEAN :
          /\ Logged(g, "write", res)
          /\ Fault(g, res = "raise")
          /\ res = "ok" => wc.exists
          /\ IF res = "ok"
                THEN /\ wc' = Written(changed)
                     /\ Goto(g, IF Len(req[g].attachments) = 0 THEN "g_add" ELSE "g_attach")
                     /\ UNCHANGED <<failure_response, outcome, rmRet>>
                ELSE /\ wc' = IF changed /\ wc.exists THEN Written(changed) ELSE wc
                     /\ StageFailed(g, "write")
    /\ attIdx' = [attIdx EXCEPT ![g] = 0]
    /\ UNCHANGED <<remote, nextId, defaultBranch, req, rmTries, commit_sha,
                   posts, evalScript, responses>>
    /\ UNCHANGED pushedTo

\* the attachment raises out of the inner try/except of the loop: attachment["url"]
\* is read before the try, attachment['name'] is read again by the except clause
AttachmentEscapes(kind) == kind \in {"no_url", "data_noname"}

\* stage 4: one pass of the attachment loop
GenAttachment(g) ==
    /\ pc[g] = "g_attach"
    /\ LET kind == req[g].attachments[attIdx[g] + 1]
           more == attIdx[g] + 1 < Len(req[g].attachments)
       IN  \E saved \in BOOLEAN :
              /\ saved => kind = "data_ok" /\ wc.exists
              /\ kind \in {"url", "no_url"} => ~saved
              /\ Logged(g, "attachment",
                        IF kind = "url" THEN "skipped"
                        ELSE IF saved THEN "saved" ELSE "fail")
              /\ wc' = IF saved THEN Written(TRUE) ELSE wc
              /\ Fault(g, kind = "data_ok" /\ ~saved)
              /\ IF AttachmentEscapes(kind)
                    THEN StageFailed(g, "write")
                    ELSE /\ Goto(g, IF more THEN "g_attach" ELSE "g_add")
                         /\ UNCHANGED <<failure_response, outcome, rmRet>>
    /\ attIdx' = [attIdx EXCEPT ![g] = @ + 1]
    /\ UNCHANGED <<remote, nextId, defaultBranch, req, rmTries, commit_sha,
                   posts, evalScript, responses>>
    /\ UNCHANGED pushedTo

\* stage 5: git add .
GenAdd(g) ==
    /\ pc[g] = "g_add"
    /\ \E o \in GenGitOutcomes :
          /\ CwdOk(o)
          /\ Logged(g, "add", o)
          /\ Fault(g, o = "fail" /\ CwdOk("ok"))
          /\ IF o = "ok"
                THEN /\ wc' = IF wc.repo
                                 THEN [wc EXCEPT !.staged = @ \/ wc.dirty,
                                                 !.dirty = FALSE]
                                 ELSE wc
                     /\ Goto(g, "g_commit")
                     /\ UNCHANGED <<failure_response, outcome, rmRet>>
                ELSE /\ UNCHANGED wc
                     /\ StageFailed(g, "push")
    /\ UNCHANGED <<remote, nextId, defaultBranch, req, rmTries, commit_sha,
                   posts, evalScript, responses, attIdx>>
    /\ UNCHANGED pushedTo

\* stage 5: git commit -m ...
GenCommit(g) ==
    /\ pc[g] = "g_commit"
    /\ \E o \in GenGitOutcomes :
          /\ CommitFeasible(o)
          /\ Logged(g, "commit", o)
          /\ Fault(g, o = "fail" /\ CommitFeasible("ok"))
          /\ IF o = "ok"
                THEN /\ IF wc.repo
                           THEN /\ wc' = [wc EXCEPT !.hist = Append(@, Sha(nextId)),
                                                    !.staged = FALSE]
                                /\ nextId' = nextId + 1
                           ELSE UNCHANGED <<wc, nextId>>
                     /\ Goto(g, "g_push")
                     /\ UNCHANGED <<failure_response, outcome, rmRet>>
                ELSE /\ UNCHANGED <<wc, nextId>>
                     /\ StageFailed(g, "push")
    /\ UNCHANGED <<remote, defaultBranch, req, rmTries, commit_sha,
                   posts, evalScript, responses, attIdx>>
    /\ UNCHANGED pushedTo

\* git push -f origin <branch>: needs the local branch, overwrites the remote one
ForcePushFeasible(o, branch) ==
    CwdOk(o) /\ (wc.repo /\ branch \notin wc.branches => o = "fail")

\* stage 5: git push -f origin target_branch
GenPush(g) ==
    /\ pc[g] = "g_push"
    /\ \E o \in GenGitOutcomes :
          /\ ForcePushFeasible(o, TargetBranch(req[g].round))
          /\ Logged(g, "push", o)
          /\ Fault(g, o = "fail" /\ ForcePushFeasible("ok", TargetBranch(req[g].round)))
          /\ pushedTo' = [pushedTo EXCEPT ![g] = TargetBranch(req[g].round)]
          /\ IF o = "ok"
                THEN /\ remote' = IF wc.repo
                                     THEN [remote EXCEPT
                                              ![TargetBranch(req[g].round)] = wc.hist]
                                     ELSE remote
                     /\ Goto(g, "g_revparse")
                     /\ UNCHANGED <<failure_response, outcome, rmRet>>
                ELSE /\ UNCHANGED remote
                     /\ StageFailed(g, "push")
    /\ UNCHANGED <<wc, nextId, defaultBranch, req, rmTries, commit_sha,
                   posts, evalScript, responses, attIdx>>

\* stage 5: commit_sha = git rev-parse HEAD
GenRevParse(g) ==
    /\ pc[g] = "g_revparse"
    /\ \E o \in GenGitOutcomes :
          /\ CwdOk(o)
          /\ Logged(g, "revparse", o)
          /\ Fault(g, o = "fail" /\ CwdOk("ok"))
          /\ IF o = "ok"
                THEN /\ commit_sha' = [commit_sha EXCEPT ![g] = HeadSha]
                     /\ outcome' = [outcome EXCEPT ![g] = "deployed"]
                     /\ Goto(g, "g_notify_ok")
                     /\ UNCHANGED <<failure_response, rmRet>>
                ELSE /\ UNCHANGED commit_sha
                     /\ StageFailed(g, "push")
    /\ UNCHANGED <<wc, remote, nextId, defaultBranch, req, rmTries,
                   posts, evalScript, responses, attIdx>>
    /\ UNCHANGED pushedTo

\* notify_evaluator without its except clause: a failed post raises into the caller
notify_evaluator_Raises(g, payload, next) ==
    \E k \in 0..MaxEvalFailures, e \in PostErrors :
        /\ evalScript' = [evalScript EXCEPT ![g] = k]
        /\ posts' = [posts EXCEPT ![g] = Append(@, payload)]
        /\ Logged(g, "post", IF Len(posts[g]) + 1 > k THEN "ok" ELSE e)
        /\ Fault(g, Len(posts[g]) + 1 <= k)
        /\ Goto(g, IF Len(posts[g]) + 1 > k THEN next ELSE "raised")

\* notify_evaluator: requests.post and raise_for_status inside try/except
\* RequestException; returns True or False, never raises
notify_evaluator(g, payload, next) ==
    \E k \in 0..MaxEvalFailures, e \in PostErrors :
        /\ evalScript' = [evalScript EXCEPT ![g] = k]
        /\ posts' = [posts EXCEPT ![g] = Append(@, payload)]
        /\ Logged(g, "post", IF Len(posts[g]) + 1 > k THEN "ok" ELSE e)
        /\ Fault(g, Len(posts[g]) + 1 <= k)
        /\ Goto(g, next)

\* the failure handlers: notify_evaluator(evaluation_url, failure_response); return
GenNotifyFailure(g) ==
    /\ pc[g] = "g_notify_fail"
    /\ notify_evaluator(g, [task |-> g, round |-> req[g].round,
                            commit_sha |-> failure_response[g]], "done")
    /\ UNCHANGED <<wc, remote, nextId, defaultBranch, req, rmRet, rmTries, commit_sha,
                   outcome, responses, failure_response, attIdx>>
    /\ UNCHANGED pushedTo

\* stage 6: notify_evaluator(evaluation_url, success_payload), then cleanup
GenNotifySuccess(g) ==
    /\ pc[g] = "g_notify_ok"
    /\ notify_evaluator(g, [task |-> g, round |-> req[g].round,
                            commit_sha |-> commit_sha[g]], "g_clean_check")
    /\ rmRet' = [rmRet EXCEPT ![g] = "done"]
    /\ UNCHANGED <<wc, remote, nextId, defaultBranch, req, rmTries, commit_sha,
                   outcome, responses, failure_response, attIdx>>
    /\ UNCHANGED pushedTo

GenProcessTask(g) ==
    \/ GenStart(g)
    \/ GenCleanCheck(g)
    \/ GenCleanTry(g)
    \/ GenClone(g)
    \/ GenCallLlm(g)
    \/ GenCheckout(g)
    \/ GenConfigIdentity(g)
    \/ GenWriteFiles(g)
    \/ GenAttachment(g)
    \/ GenAdd(g)
    \/ GenCommit(g)
    \/ GenPush(g)
    \/ GenRevParse(g)
    \/ GenNotifySuccess(g)
    \/ GenNotifyFailure(g)

NextGen == \E g \in GenRuns : GenProcessTask(g)

SpecGen == InitGen /\ [][NextGen]_vars

\* ------------------------------------------- either program, one at a time

MainIdle == \A r \in Runs : pc[r] = "idle"

GenIdle == \A g \in GenRuns : pc[g] = "idle"

\* the behaviours of the main.py server and those of app_generator.py process_task
NextBoth == (GenIdle /\ Next) \/ (MainIdle /\ NextGen)

SpecBoth == Init /\ [][NextBoth]_vars

\* ------------------------------------------------------------------ claims

InSeq(x, sq) == \E i \in 1..Len(sq) : sq[i] = x

\* the run's log ends with a working-copy cleanup, followed at most by the post
EndsWithCleanup(l) ==
    /\ Len(l) >= 1
    /\ \/ l[Len(l)] \in {"rmtree", "cleanup"}
       \/ Len(l) >= 2 /\ l[Len(l)] = "post" /\ l[Len(l) - 1] \in {"rmtree", "cleanup"}

\* this step is the return of safe_rmtree (main.py) or cleanup (app_generator.py)
RemovalReturns(r) ==
    /\ pc[r] \in {"rm_check", "rm_try", "g_clean_check", "g_clean_try"}
    /\ pc'[r] \notin {"rm_check", "rm_try", "g_clean_check", "g_clean_try"}

\* the removal loop is in its last pass
LastPass(r) ==
    \/ pc[r] = "rm_try" /\ rmTries[r] + 1 = RmAttempts
    \/ pc[r] = "g_clean_try" /\ rmTries[r] + 1 = CleanupAttempts

\* C1 as stated: at the step that ends a run of process_task (main.py), whichever
\* stage failed or on success, LOCAL_REPO_PATH does not exist.
C1_AbsentAtEnd ==
    [][\A r \in Runs : (pc[r] # "done" /\ pc'[r] = "done") => ~wc'.exists]_vars

\* C1 amended: every run of process_task (main.py) that ends has called safe_rmtree as
\* its last operation on the working copy (only the evaluator ping may follow), and
\* whenever safe_rmtree returns, LOCAL_REPO_PATH does not exist unless the fifth of
\* its removal attempts has just failed.
C1_CleanupAtEnd ==
    [][\A r \in Runs :
          /\ (pc[r] # "done" /\ pc'[r] = "done") => EndsWithCleanup(log'[r])
          /\ RemovalReturns(r) => (~wc'.exists \/ LastPass(r))]_vars

\* a run that failed in deployment has ended after removing the working copy
C1_Witness ==
    \E r \in Runs :
        /\ pc[r] = "done"
        /\ outcome[r] = "deploy_failed"
        /\ last[r] = <<"rmtree", "removed">>
        /\ ~wc.exists

\* C2: every run of process_task (main.py) that has ended has sent exactly one payload
\* to evaluation_url, whether it failed in generation, in deployment, or succeeded.
C2_OnePayloadPerRun ==
    \A r \in Runs : pc[r] = "done" => Len(posts[r]) = 1

\* the stages of process_task (app_generator.py) that can fail before a commit
\* identifier exists
Stages == {"clone", "llm", "branch", "write", "push"}

CommitIds == {Sha(n) : n \in 0..nextId} \cup {"outer"}

\* C3: a run of process_task (app_generator.py) that failed at a stage sends exactly
\* one payload; its commit_sha is a non-empty symbolic tag (not the default "ERROR",
\* not a commit hash) that no other stage uses; no success payload is sent.
C3_FailureTagged ==
    \A g \in GenRuns :
        /\ outcome[g] \in Stages =>
              /\ Len(posts[g]) <= 1
              /\ \A i \in 1..Len(posts[g]) : posts[g][i].commit_sha \notin CommitIds
        /\ (pc[g] = "done" /\ outcome[g] # "deployed") =>
              /\ outcome[g] \in Stages
              /\ Len(posts[g]) = 1
              /\ posts[g][1].commit_sha \notin {"", "ERROR", "unknown"}
              /\ \A st \in Stages \ {outcome[g]} :
                    posts[g][1].commit_sha # FailureTag(st)

\* a run that failed while writing files has ended with its one payload sent
C3_Witness ==
    \E g \in GenRuns :
        /\ pc[g] = "done"
        /\ outcome[g] = "write"
        /\ Len(posts[g]) = 1
        /\ posts[g][1].commit_sha = "FILE_WRITE_FAILED"

\* C4: a round-1 run of process_task (app_generator.py) against a remote whose default
\* branch is main, in which no external call failed that could have succeeded and the
\* attachments are well-formed, has pushed to main and posted one success payload
\* with the request's task and round and the hash of the pushed commit.
C4_Round1Deploys ==
    \A g \in GenRuns :
        ( /\ pc[g] = "done"
          /\ req[g].round = 1
          /\ defaultBranch = "main"
          /\ ~envFault[g]
          /\ \A i \in 1..Len(req[g].attachments) :
                req[g].attachments[i] \in {"url", "data_ok"} )
        => /\ pushedTo[g] = "main"
           /\ posts[g] = << [task |-> g, round |-> 1,
                             commit_sha |-> Last(remote["main"])] >>

\* C5: at the step at which a round-1 run of process_task (main.py) succeeds in
\* pushing, the default branch of the remote has gained exactly one commit and the
\* commit_sha the run will send is the head of that branch.
C5_OneCommitShaIsHead ==
    [][\A r \in Runs :
          (pc[r] = "push" /\ outcome'[r] = "deployed" /\ req[r].round = 1)
          => /\ Len(remote'[defaultBranch]) = Len(remote[defaultBranch]) + 1
             /\ commit_sha[r] = Last(remote'[defaultBranch])]_vars

\* C6: the branch a run pushes to is main when round is 1 and round-<N> when round is
\* N > 1; a run with round > 1 never pushes to the default branch.
C6_BranchByRound ==
    \A r \in AllRuns :
        pushedTo[r] # "" =>
            /\ pushedTo[r] = TargetBranch(req[r].round)
            /\ req[r].round > 1 => pushedTo[r] # defaultBranch

\* C7: against an endpoint that fails the first two attempts and accepts the third,
\* the evaluator ping of a run makes exactly 3 attempts and ends in success.
C7_ThreeAttempts ==
    \A r \in Runs :
        (pc[r] = "done" /\ posts[r] # <<>> /\ evalScript[r] = 2)
        => /\ Len(posts[r]) = 3
           /\ last[r] = <<"post", "ok">>

\* every notification attempt of the run has failed
NotifyFailed(r) == posts[r] # <<>> /\ evalScript[r] >= Len(posts[r])

\* the payload the run sent carries the outcome the run recorded
PayloadMatchesOutcome(r) ==
    /\ outcome[r] \in Stages \cup {"deployed"}
    /\ posts[r][1].commit_sha =
          IF outcome[r] = "deployed" THEN commit_sha[r]
          ELSE failure_response[r]

Holding(r) ==
    /\ InSeq("clone", log[r])
    /\ pc[r] \in {"llm", "config", "write", "add", "commit", "revparse", "seturl", "push"}

\* C9: while one run of process_task (main.py) is between its clone and its final
\* cleanup, no other run removes LOCAL_REPO_PATH, clones into it, writes to it or
\* commits in it.
C9_ExclusiveWorkingCopy ==
    [][\A r1, r2 \in Runs :
          (r1 # r2 /\ Holding(r1) /\ log'[r2] # log[r2])
          => last'[r2] \notin {<<"rmtree", "removed">>, <<"clone", "ok">>,
                                <<"write", "ok">>, <<"commit", "ok">>}]_vars

DeployerSteps ==
    {"rmtree", "clone", "checkout", "config", "write", "commit", "push", "revparse"}

IsDeployerStep(op) == op \in DeployerSteps

\* C10: on every successful run of process_task (main.py) the deployer steps before
\* the final cleanup are, each once and in this order: prepare, clone, select branch,
\* configure identity, materialize files, commit, push, resolve commit identifier.
C10_DeployerOrder ==
    \A r \in Runs :
        (pc[r] = "done" /\ outcome[r] = "deployed")
        => SelectSeq(SubSeq(log[r], 1, Len(log[r]) - 2), IsDeployerStep)
              = <<"rmtree", "clone", "checkout", "config", "write", "commit",
                  "push", "revparse">>

\* C11: in every run of process_task (main.py) no clone happens before the generator
\* call, and a run that made its notification attempt has ended with the final
\* removal of the working copy after it.
C11_StageOrder ==
    \A r \in Runs :
        /\ \A i, j \in 1..Len(log[r]) :
              i < j => ~(log[r][i] = "clone" /\ log[r][j] = "llm")
        /\ (pc[r] = "done" /\ InSeq("post", log[r])) => Last(log[r]) = "rmtree"

\* C12: at every step at which a run of process_task (main.py) attempts git commit,
\* the working copy is a clone in which the committer identity has been configured.
C12_IdentityBeforeCommit ==
    [][\A r \in Runs :
          (pc[r] = "commit" /\ log'[r] # log[r]) => (wc.repo /\ wc.identity)]_vars

IsRmtree(op) == op = "rmtree"

\* the calls of safe_rmtree the run has made and that have returned
RemovalCalls(r) == Len(SelectSeq(log[r], IsRmtree))

\* C13 as stated: every run of process_task (main.py) that has ended has invoked the
\* removal of LOCAL_REPO_PATH exactly once.
C13_RemovalOnce ==
    \A r \in Runs : pc[r] = "done" => RemovalCalls(r) = 1

\* C13 amended: every run of process_task (main.py) that has ended has invoked the
\* final cleanup exactly once, as its last operation on the working copy; the only
\* other call of safe_rmtree is the one a round-1 run makes before its clone, so a
\* run makes two calls when it is a round-1 run that entered the deployment phase and
\* one call otherwise, and never more than two.
C13_FinalCleanupOnce ==
    \A r \in Runs :
        /\ RemovalCalls(r) <= 2
        /\ pc[r] = "done" =>
              /\ EndsWithCleanup(log[r])
              /\ RemovalCalls(r) =
                    IF req[r].round = 1 /\ outcome[r] # "gen_failed" THEN 2 ELSE 1

\* a round-1 run has ended in success after two calls of safe_rmtree
C13_Witness ==
    \E r \in Runs :
        /\ pc[r] = "done"
        /\ req[r].round = 1
        /\ outcome[r] = "deployed"
        /\ RemovalCalls(r) = 2

\* the git steps of the deployer whose failure the run is to treat as fatal
FatalGitSteps(round) ==
    {"clone", "config", "add", "seturl", "push"}
        \cup (IF round = 1 THEN {"commit"} ELSE {})

\* C14: when a git step of the deployer (clone, identity configuration, staging, commit
\* in round 1, setting the authenticated remote, push) has failed in a run of
\* process_task (main.py), the next operation of that run is the removal of the
\* working copy: no later deployer step runs.
C14_FailedStepAborts ==
    [][\A r \in Runs :
          ( /\ last[r][1] \in FatalGitSteps(req[r].round)
            /\ last[r][2] = "fail"
            /\ log'[r] # log[r] )
          => Last(log'[r]) = "rmtree"]_vars

\* --------------------------------- main.py against a remote others write to

\* another writer of the remote repository pushes a commit to its branch main
ForeignPush ==
    /\ Len(remote["main"]) < MaxRemoteLen
    /\ remote' = [remote EXCEPT !["main"] = Append(@, Sha(nextId))]
    /\ nextId' = nextId + 1
    /\ UNCHANGED <<wc, defaultBranch, pc, req, rmRet, rmTries, commit_sha, outcome,
                   log, last, posts, evalScript, responses>>
    /\ UNCHANGED <<genVars, pushedTo>>

\* one request to the server, the remote advancing meanwhile
NextRemote ==
    \/ \E r \in {"a"} : HandleTaskRequest(r) \/ ProcessTask(r)
    \/ ForeignPush

SpecRemote == Init /\ [][NextRemote]_vars

\* C15: a push step of process_task (main.py) taken when the remote branch has
\* advanced or diverged from the history of the working copy leaves the remote branch
\* at the working copy's history.
C15_PushOverwrites ==
    [][\A r \in Runs :
          ( /\ pc[r] = "push"
            /\ log'[r] # log[r]
            /\ wc.repo
            /\ "main" \in wc.branches
            /\ ~IsPrefix(remote["main"], wc.hist) )
          => remote'["main"] = wc.hist]_vars

\* C16: at the step at which git commit fails in a run of process_task (main.py), a
\* run with round > 1 is not aborted and goes on towards the push with its outcome
\* untouched, and a round-1 run is aborted (deployment failed, cleanup next).
C16_CommitFailureByRound ==
    [][\A r \in Runs :
          ( /\ pc[r] = "commit"
            /\ log'[r] # log[r]
            /\ last'[r] = <<"commit", "fail">> )
          => IF req[r].round = 1
                THEN pc'[r] = "rm_check" /\ outcome'[r] = "deploy_failed"
                ELSE pc'[r] = "revparse" /\ outcome'[r] = outcome[r]]_vars

\* a round-2 run, alone on the server, has ended in success although no commit was
\* ever made: its git commit failed and its push went through
C16_Witness ==
    \E r \in Runs :
        /\ \A q \in Runs \ {r} : pc[q] = "idle"
        /\ pc[r] = "done"
        /\ req[r].round = 2
        /\ outcome[r] = "deployed"
        /\ InSeq("commit", log[r])
        /\ pushedTo[r] = "main"
        /\ nextId = 1

C18_BadSecretNotScheduled ==
    \A r \in Runs : ~(last[r] = <<"request", "secret_bad">> /\ pc[r] = "start")

\* the attachment entries whose url is a data URI
DataUriKinds == {"data_ok", "data_bad", "data_noname"}

\* C19: at a pass of the attachment loop of process_task (app_generator.py) in which a
\* data-URI attachment fails to decode or to be written, the attachment is skipped:
\* the loop goes on to the next attachment or to the commit stage, and the run is not
\* failed with FILE_WRITE_FAILED.
C19_BadAttachmentSkipped ==
    [][\A g \in GenRuns :
          ( /\ pc[g] = "g_attach"
            /\ log'[g] # log[g]
            /\ req[g].attachments[attIdx[g] + 1] \in DataUriKinds
            /\ last'[g] = <<"attachment", "fail">> )
          => /\ pc'[g] \in {"g_attach", "g_add"}
             /\ outcome'[g] = outcome[g]
             /\ failure_response'[g] = failure_response[g]]_vars

\* ------------------------------------------------ main.py: a run that is scheduled

\* every external call returns and the thread pool keeps running the scheduled run
FairRemote == SpecRemote /\ WF_vars(ProcessTask("a"))

\* C20: every started run of process_task (main.py) eventually reaches its end,
\* whatever the external calls (generator, git, directory removal, evaluator) return.
C20_RunTerminates ==
    \A r \in {"a"} : (pc[r] = "start") ~> (pc[r] = "done")

\* a run has ended although every removal attempt of its final cleanup failed
C20_Witness ==
    \E r \in {"a"} :
        /\ pc[r] = "done"
        /\ last[r] = <<"rmtree", "exhausted">>
        /\ wc.exists

\* C21: safe_rmtree makes another removal attempt only after fewer than 5 failed ones,
\* makes none after the attempt that removed the directory, and no run of
\* process_task (main.py) is ever ended by an exception.
C21_BoundedRemoval ==
    \A r \in Runs :
        /\ pc[r] = "rm_try" => rmTries[r] < RmAttempts
        /\ last[r] = <<"rmtree", "removed">> => pc[r] # "rm_try"
        /\ pc[r] # "raised"

\* a round-1 run goes on to its clone after all five removal attempts of the call
\* before it failed
C21_Witness ==
    \E r \in Runs :
        /\ pc[r] = "clone"
        /\ last[r] = <<"rmtree", "exhausted">>
        /\ wc.exists

\* the operations of the deployment phase of process_task (main.py)
DeploymentOps == {"config", "write", "add", "commit", "revparse", "seturl", "push"}

\* C22: a run of process_task (main.py) whose generator call raised, reported failure
\* or returned no files goes straight to its final cleanup with the generation
\* recorded as failed, and a run whose generation failed has written no file, made
\* no commit and attempted no push.
C22_NoDeployAfterGenFailure ==
    \A r \in Runs :
        /\ last[r] = <<"llm", "fail">> =>
              /\ pc[r] \in {"rm_check", "rm_try"}
              /\ rmRet[r] = "done"
              /\ outcome[r] = "gen_failed"
        /\ outcome[r] = "gen_failed" =>
              /\ \A i \in 1..Len(log[r]) : log[r][i] \notin DeploymentOps
              /\ pushedTo[r] = ""

\* a round-2 run has ended after its clone and a failed generator call
C22_Witness ==
    \E r \in Runs :
        /\ pc[r] = "done"
        /\ req[r].round = 2
        /\ outcome[r] = "gen_failed"
        /\ InSeq("llm", log[r])

\* C23: at a step at which git clone, git commit or git push of a run of process_task
\* (main.py) exits successfully, with or without standard output, the run is not
\* turned into a failed one.
C23_EmptyOutputIsSuccess ==
    [][\A r \in Runs :
          ( /\ log'[r] # log[r]
            /\ last'[r][1] \in {"clone", "commit", "push"}
            /\ last'[r][2] = "ok" )
          => outcome'[r] \notin {"gen_failed", "deploy_failed"}]_vars

\* C24: a run of process_task (main.py) that has reached its file-writing step has
\* cloned the remote earlier in the same run.
C24_WriteAfterClone ==
    \A r \in Runs : InSeq("write", log[r]) => InSeq("clone", log[r])

====
